---- MODULE Spec2Model ----
(***************************************************************************)
(* Model of r2wc's session layer: src/src/connection.rs (Connection),      *)
(* src/src/connection/peer.rs (Peer) and the poll loop of                  *)
(* src/src/server.rs.                                                      *)
(*                                                                         *)
(* A Rust String is modelled as the sequence of its UTF-8 bytes, a         *)
(* TcpStream as the id of the connection it is a handle of, and            *)
(* Option<T> as a sequence of length 0 (None) or 1 (Some).                 *)
(***************************************************************************)
EXTENDS Integers, Sequences, FiniteSets, TLC

VARIABLES
    msg_size,   \* Connection.msg_size
    taken,      \* Connection.taken : Option<bool>
    peer,       \* Connection.peer  : Option<Peer>
    backlog,    \* the TcpListener's queue of connections not yet accepted
    conns,      \* the TCP connections, by id
    pc,         \* where the single control flow driving the Connection is
    elapsed,    \* await_client_timeout's stopwatch, in ms
    last,       \* what the last Connection operation did and returned
    loop_msg,   \* server.rs main: `msg`, between receive_message and its handling
    cmsg,       \* codec check: the message handed to send_message
    cframe,     \* codec check: the frame on the wire, as Option
    cout,       \* codec check: what receive_message made of the frame
    dups,       \* the Peers that get_peer returned and its caller still holds
    pushed      \* server.rs: the entries the latest step pushed on `chat`

vars == <<msg_size, taken, peer, backlog, conns, pc, elapsed, last, loop_msg,
          cmsg, cframe, cout, dups, pushed>>

(***************************************************************************)
(* Bounds of the model.                                                    *)
(***************************************************************************)
MaxConns == 2       \* connections that are ever opened
MaxFrame == 2       \* largest msg_size a session is constructed with
MaxInbFrames == 2   \* frames a remote may have sent that are still unread
SndBuf == 3         \* bytes the socket send buffer holds before a write would block
TickMs == 50        \* granularity of the stopwatch
MaxChars == 3       \* longest message, in characters, of the codec check
MaxCodecFrame == 4  \* largest msg_size of the codec check
MaxDups == 2        \* Peers from get_peer that are held at one time
MaxPad == 1         \* most bytes of padding behind the longest text of a frame

(***************************************************************************)
(* Program constants.                                                      *)
(***************************************************************************)
TimeoutMs == 100    \* connection.rs:165
BufCap == 8192      \* capacity of BufReader::new / BufWriter::new

Min(a, b) == IF a < b THEN a ELSE b

None == <<>>
Some(x) == <<x>>

(***************************************************************************)
(* Texts.                                                                  *)
(***************************************************************************)
EmptyStr == <<69, 109, 112, 116, 121>>                        \* "Empty"
BlockedStr == <<66, 108, 111, 99, 107, 101, 100>>             \* "Blocked"
DisconnectedStr == <<68, 105, 115, 99, 111, 110, 110, 101, 99, 116, 101, 100>>
MessageReceivedStr == <<77, 101, 115, 115, 97, 103, 101, 32, 82, 101, 99, 101,
                        105, 118, 101, 100, 46>>              \* "Message Received."
MessageSentPrefix == <<77, 101, 115, 115, 97, 103, 101, 32, 115, 101, 110,
                       116, 32>>                              \* "Message sent "

\* The decimal digits of n, as ASCII.
RECURSIVE Decimal(_)
Decimal(n) == IF n < 10 THEN <<48 + n>> ELSE Decimal(n \div 10) \o <<48 + (n % 10)>>

\* {:?} of a Vec<u8>: "[b1, b2, ...]".
RECURSIVE DebugItems(_)
DebugItems(buff) ==
    IF buff = <<>> THEN <<>>
    ELSE IF Len(buff) = 1 THEN Decimal(buff[1])
    ELSE Decimal(buff[1]) \o <<44, 32>> \o DebugItems(Tail(buff))

DebugVec(buff) == <<91>> \o DebugItems(buff) \o <<93>>

(***************************************************************************)
(* The framing codec.                                                      *)
(***************************************************************************)
\* Vec::resize(n, 0): truncate to n bytes, or pad with zero bytes up to n.
Resize(buff, n) ==
    IF Len(buff) >= n THEN SubSeq(buff, 1, n)
    ELSE buff \o [i \in 1..(n - Len(buff)) |-> 0]

\* send_message's frame for msg.
EncodeFrame(msg, size) == Resize(msg, size)

\* take_while(|&x| x != 0)
RECURSIVE TakeWhileNonZero(_)
TakeWhileNonZero(buff) ==
    IF buff = <<>> \/ buff[1] = 0 THEN <<>>
    ELSE <<buff[1]>> \o TakeWhileNonZero(Tail(buff))

IsCont(b) == b >= 128 /\ b <= 191

\* String::from_utf8's validation.
RECURSIVE Utf8Valid(_)
Utf8Valid(b) ==
    IF b = <<>> THEN TRUE
    ELSE IF b[1] < 128 THEN Utf8Valid(Tail(b))
    ELSE IF b[1] >= 194 /\ b[1] <= 223
        THEN Len(b) >= 2 /\ IsCont(b[2]) /\ Utf8Valid(SubSeq(b, 3, Len(b)))
    ELSE IF b[1] >= 224 /\ b[1] <= 239
        THEN /\ Len(b) >= 3
             /\ IsCont(b[2]) /\ IsCont(b[3])
             /\ (b[1] = 224 => b[2] >= 160)
             /\ (b[1] = 237 => b[2] <= 159)
             /\ Utf8Valid(SubSeq(b, 4, Len(b)))
    ELSE IF b[1] >= 240 /\ b[1] <= 244
        THEN /\ Len(b) >= 4
             /\ IsCont(b[2]) /\ IsCont(b[3]) /\ IsCont(b[4])
             /\ (b[1] = 240 => b[2] >= 144)
             /\ (b[1] = 244 => b[2] <= 143)
             /\ Utf8Valid(SubSeq(b, 5, Len(b)))
    ELSE FALSE

\* DecodeFrame without the take_while: the padding stays in the text.
DecodeFrame_NoStrip(buff) ==
    IF Utf8Valid(buff) THEN [panic |-> FALSE, text |-> buff]
    ELSE [panic |-> TRUE, text |-> <<>>]

\* receive_message's Ok arm: the text of a frame, or a panic.
DecodeFrame(buff) ==
    LET msg == TakeWhileNonZero(buff)
    IN  IF Utf8Valid(msg) THEN [panic |-> FALSE, text |-> msg]
        ELSE [panic |-> TRUE, text |-> <<>>]

\* The characters messages are made of: U+0000, 'a' and U+00E9.
Chars == {<<0>>, <<97>>, <<195, 169>>}

\* Every String of at most n of these characters.
RECURSIVE StringsUpTo(_)
StringsUpTo(n) ==
    IF n = 0 THEN {<<>>}
    ELSE LET shorter == StringsUpTo(n - 1)
         IN  shorter \cup {s \o c : s \in shorter, c \in Chars}

(***************************************************************************)
(* Connections and peers.                                                  *)
(***************************************************************************)
ConnIds == 1..MaxConns

\* A connection nobody has opened yet.  Of a connection: whether its remote end
\* is open; where its local handle is; the bytes the remote sent that are still
\* in flight (fl) and that wait unread in the local socket (inb); and how many
\* bytes written locally wait in the send buffer (out); occ records whether the
\* Connection was occupied when the connection reached the listener, for as long
\* as it waits there.
FreshConn == [remote |-> "unused", srv |-> "none", occ |-> FALSE,
              fl |-> <<>>, inb |-> <<>>, out |-> 0]

\* A connection whose server-side handle has been closed.
ReleasedConn == [remote |-> "closed", srv |-> "closed", occ |-> FALSE,
                 fl |-> <<>>, inb |-> <<>>, out |-> 0]

\* format!("{}", addr) of the remote end of connection c.
Addr(c) == "addr" \o ToString(c)

\* Peer { stream, who }
Peer(c, who) == [stream |-> c, who |-> who]

\* Peer::clone: a Peer with a try_clone of the stream, which is another handle of
\* the same connection, and a copy of who.
ClonePeer(p) == [stream |-> p.stream, who |-> p.who]

\* The caller holds a duplicate whose stream is a handle of connection c.
HasDup(c) == \E i \in DOMAIN dups : dups[i].stream = c

\* DropPeer closing the connection whatever other handles of it there are.
DropPeer_Severs(cs, p) ==
    IF p = None THEN cs ELSE [cs EXCEPT ![p[1].stream] = ReleasedConn]

\* Dropping the Peer in p closes its TcpStream: the connection is closed when
\* that was the last handle of it.
DropPeer(cs, p) ==
    IF p = None \/ HasDup(p[1].stream) THEN cs
    ELSE [cs EXCEPT ![p[1].stream] = ReleasedConn]

\* Peer::get_client: one non-blocking accept on the listener.
GetClient ==
    IF backlog = <<>> THEN None
    ELSE Some(Peer(Head(backlog), Addr(Head(backlog))))

\* The listener's queue after that accept.
AfterAccept == IF backlog = <<>> THEN backlog ELSE Tail(backlog)

\* What the step that led here did, if it was a step of a Connection operation:
\* its return value and the I/O it did.
\*   n: flips when an operation is repeated at once; ret: the String returned;
\*   arm: the match arm taken;
\*   frame, wr: the frame built and the bytes of it that reached the socket;
\*   rd: bytes taken off the socket; acc: accepts done on the listener;
\*   rej: reject_other_clients' (bool, Option<Peer>).
Report(op, ret, arm, frame, wr, rd, acc, rej) ==
    [n |-> IF last.op = op THEN 1 - last.n ELSE 0,
     op |-> op, ret |-> ret, arm |-> arm, frame |-> frame,
     wr |-> wr, rd |-> rd, acc |-> acc, rej |-> rej]

NoReport == [n |-> 0, op |-> "none", ret |-> <<>>, arm |-> "none", frame |-> <<>>,
             wr |-> 0, rd |-> 0, acc |-> 0, rej |-> <<FALSE, None>>]

\* What no Connection operation touches.
fixed == <<msg_size, cmsg, cframe, cout, dups>>

(***************************************************************************)
(* Connection's operations.  Each is the whole method; where the caller    *)
(* goes next (pc) is the caller's business and is set by the callers       *)
(* below.                                                                  *)
(***************************************************************************)

\* self.peer = Some(c); self.taken = Some(true): the Peer bound before, if any,
\* is dropped by the assignment.
Bind(c) ==
    /\ peer' = c
    /\ taken' = Some(TRUE)
    /\ backlog' = AfterAccept
    /\ conns' = [DropPeer(conns, peer) EXCEPT ![c[1].stream].srv = "held",
                                              ![c[1].stream].occ = FALSE]

\* await_client returning from a turn whose accept got nothing.
await_client_returns_early ==
    /\ IF GetClient # None
          THEN Bind(GetClient)
          ELSE UNCHANGED <<taken, peer, backlog, conns>>
    /\ last' = Report("await_client", <<>>, "some", <<>>, 0, 0, 1, <<FALSE, None>>)
    /\ UNCHANGED <<fixed, elapsed>>

\* One turn of await_client's loop.
await_client ==
    /\ IF GetClient # None
          THEN /\ Bind(GetClient)
               /\ last' = Report("await_client", <<>>, "some", <<>>, 0, 0, 1,
                                 <<FALSE, None>>)
          ELSE /\ last' = Report("await_client", <<>>, "none", <<>>, 0, 0, 1,
                                 <<FALSE, None>>)
               /\ UNCHANGED <<taken, peer, backlog, conns>>
    /\ UNCHANGED <<fixed, elapsed>>

\* let start = Stopwatch::start_new();
await_client_timeout_start ==
    /\ elapsed' = 0
    /\ last' = NoReport
    /\ UNCHANGED <<fixed, taken, peer, backlog, conns>>

\* await_client_timeout without the test of the stopwatch.
await_client_timeout_unbounded ==
    /\ IF GetClient # None
          THEN /\ Bind(GetClient)
               /\ last' = Report("await_client_timeout", <<>>, "some", <<>>,
                                 0, 0, 1, <<FALSE, None>>)
          ELSE /\ last' = Report("await_client_timeout", <<>>, "none", <<>>,
                                 0, 0, 1, <<FALSE, None>>)
               /\ UNCHANGED <<taken, peer, backlog, conns>>
    /\ elapsed' = IF last'.arm = "none" THEN elapsed ELSE 0
    /\ UNCHANGED fixed

\* One evaluation of `while start.elapsed_ms() < 100` and, if it holds, one turn
\* of the loop.  The stopwatch is a local: it is gone (0 here) after the return.
await_client_timeout ==
    /\ IF elapsed < TimeoutMs
          THEN IF GetClient # None
                 THEN /\ Bind(GetClient)
                      /\ last' = Report("await_client_timeout", <<>>, "some", <<>>,
                                        0, 0, 1, <<FALSE, None>>)
                 ELSE /\ last' = Report("await_client_timeout", <<>>, "none", <<>>,
                                        0, 0, 1, <<FALSE, None>>)
                      /\ UNCHANGED <<taken, peer, backlog, conns>>
          ELSE /\ last' = Report("await_client_timeout", <<>>, "timeout", <<>>,
                                 0, 0, 0, <<FALSE, None>>)
               /\ UNCHANGED <<taken, peer, backlog, conns>>
    /\ elapsed' = IF last'.arm = "none" THEN elapsed ELSE 0
    /\ UNCHANGED fixed

\* reject_other_clients without the test of `taken`.
reject_other_clients_unguarded ==
    /\ last' = Report("reject_other_clients", <<>>, "taken", <<>>, 0, 0, 1,
                      <<TRUE, GetClient>>)
    /\ backlog' = AfterAccept
    /\ conns' = DropPeer(conns, GetClient)
    /\ UNCHANGED <<fixed, elapsed, taken, peer>>

\* reject_other_clients, with the (bool, Option<Peer>) it returns dropped at the
\* end of the calling statement (server.rs:238), which closes the stream of the
\* Peer in it.
reject_other_clients ==
    /\ IF taken = Some(TRUE)
          THEN /\ last' = Report("reject_other_clients", <<>>, "taken", <<>>, 0, 0, 1,
                                 <<TRUE, GetClient>>)
               /\ backlog' = AfterAccept
               /\ conns' = DropPeer(conns, GetClient)
          ELSE /\ last' = Report("reject_other_clients", <<>>, "free", <<>>, 0, 0, 0,
                                 <<FALSE, None>>)
               /\ UNCHANGED <<backlog, conns>>
    /\ UNCHANGED <<fixed, elapsed, taken, peer>>

\* get_peer: self.peer.clone(), handed to the caller.
get_peer ==
    /\ IF peer = None
          THEN /\ dups' = dups
               /\ last' = Report("get_peer", <<>>, "none", <<>>, 0, 0, 0, <<FALSE, None>>)
          ELSE /\ dups' = Append(dups, ClonePeer(peer[1]))
               /\ last' = Report("get_peer", <<>>, "some", <<>>, 0, 0, 0, <<FALSE, None>>)
    /\ UNCHANGED <<msg_size, cmsg, cframe, cout, elapsed, taken, peer, backlog, conns>>

\* Bytes a flush of `size` buffered bytes gets onto the socket of connection c:
\* what the send buffer has room for; nothing, possibly, once the remote is gone.
Written(c, size) ==
    LET room == Min(size, SndBuf - conns[c].out)
    IN  IF conns[c].remote = "closed" THEN {0, room} ELSE {room}

\* None => return (String::from("Empty"), Stopwatch::start_new())
SendEmpty(op) ==
    /\ last' = Report(op, EmptyStr, "none", <<>>, 0, 0, 0, <<FALSE, None>>)
    /\ UNCHANGED conns

\* Some(peer): the frame is built and written through a BufWriter.  A frame
\* smaller than the BufWriter's buffer stays in it until the BufWriter is dropped
\* at the return, and that flush's error is ignored; a larger one is written at
\* once and a failure panics in expect().
SendFrame(op, c, msg) ==
    LET buff == EncodeFrame(msg, msg_size)
    IN  \E w \in Written(c, msg_size) :
          /\ conns' = [conns EXCEPT ![c].out = @ + w]
          /\ IF msg_size >= BufCap /\ w < msg_size
                THEN last' = Report(op, <<>>, "panic", buff, w, 0, 0, <<FALSE, None>>)
                ELSE last' = Report(op, MessageSentPrefix \o DebugVec(buff), "some",
                                    buff, w, 0, 0, <<FALSE, None>>)

\* send_message(msg), reporting as operation `op`.
SendAs(op, msg) ==
    /\ IF peer = None THEN SendEmpty(op) ELSE SendFrame(op, peer[1].stream, msg)
    /\ UNCHANGED <<fixed, elapsed, taken, peer, backlog>>

send_message(msg) == SendAs("send_message", msg)

\* notify_message_received: the report keeps the String of the send_message in it.
notify_message_received == SendAs("notify_message_received", MessageReceivedStr)

\* Bytes one receive_message takes off a socket holding n unread bytes: the
\* BufReader fills its buffer with whatever is there, unless the frame is as
\* large as the buffer and is read into directly.
TakenOff(n) == IF msg_size >= BufCap THEN Min(n, msg_size) ELSE Min(n, BufCap)

\* The remote's end of connection c is at end of file for the reader.
AtEof(c) == conns[c].remote = "closed" /\ conns[c].fl = <<>>

\* RecvEmpty answering as if a peer were there and silent.
RecvEmpty_Blocked ==
    /\ last' = Report("receive_message", BlockedStr, "none", <<>>, 0, 0, 0, <<FALSE, None>>)
    /\ UNCHANGED <<taken, peer, conns>>

\* None => return String::from("Empty")
RecvEmpty ==
    /\ last' = Report("receive_message", EmptyStr, "none", <<>>, 0, 0, 0, <<FALSE, None>>)
    /\ UNCHANGED <<taken, peer, conns>>

\* Ok(_): the frame is decoded; what else the BufReader took off the socket is
\* dropped with the BufReader.
RecvOk(c) ==
    LET avail == conns[c].inb
        got == TakenOff(Len(avail))
        d == DecodeFrame(SubSeq(avail, 1, msg_size))
    IN  /\ conns' = [conns EXCEPT ![c].inb = SubSeq(avail, got + 1, Len(avail))]
        /\ last' = Report("receive_message", d.text, IF d.panic THEN "panic" ELSE "ok",
                          <<>>, 0, got, 0, <<FALSE, None>>)
        /\ UNCHANGED <<taken, peer>>

\* RecvBlocked without the WouldBlock arm: the error falls into Err(_).
RecvBlocked_Disconnects(c) ==
    /\ taken' = Some(FALSE)
    /\ peer' = None
    /\ conns' = DropPeer(conns, peer)
    /\ last' = Report("receive_message", DisconnectedStr, "err", <<>>, 0,
                      TakenOff(Len(conns[c].inb)), 0, <<FALSE, None>>)

\* Err(ref err) if err.kind() == ErrorKind::WouldBlock: the bytes read_exact had
\* already taken are dropped with the BufReader.
RecvBlocked(c) ==
    LET avail == conns[c].inb
        got == TakenOff(Len(avail))
    IN  /\ conns' = [conns EXCEPT ![c].inb = SubSeq(avail, got + 1, Len(avail))]
        /\ last' = Report("receive_message", BlockedStr, "wouldblock", <<>>, 0, got, 0,
                          <<FALSE, None>>)
        /\ UNCHANGED <<taken, peer>>

\* RecvDisconnected without `self.peer = None`.
RecvDisconnected_KeepsPeer(c) ==
    /\ taken' = Some(FALSE)
    /\ UNCHANGED <<peer, conns>>
    /\ last' = Report("receive_message", DisconnectedStr, "err", <<>>, 0,
                      TakenOff(Len(conns[c].inb)), 0, <<FALSE, None>>)

\* Err(_): a read returned 0 bytes before the frame was complete.
RecvDisconnected(c) ==
    /\ taken' = Some(FALSE)
    /\ peer' = None
    /\ conns' = DropPeer(conns, peer)
    /\ last' = Report("receive_message", DisconnectedStr, "err", <<>>, 0,
                      TakenOff(Len(conns[c].inb)), 0, <<FALSE, None>>)

receive_message ==
    /\ IF peer = None THEN RecvEmpty
       ELSE LET c == peer[1].stream
            IN  IF Len(conns[c].inb) >= msg_size THEN RecvOk(c)
                ELSE IF AtEof(c) THEN RecvDisconnected(c)
                ELSE RecvBlocked(c)
    /\ UNCHANGED <<fixed, elapsed, backlog>>

(***************************************************************************)
(* The other end: remote endpoints and the network, as the sockets of      *)
(* connection.rs and peer.rs see them.                                     *)
(***************************************************************************)
\* Messages a remote endpoint sends, and messages the local caller sends.
RemoteMsgs == {<<97>>, <<97, 195, 169>>}
SendMsgs == {<<>>, <<97>>}

\* Bytes sent by remote endpoints and not yet read, over all connections.
RECURSIVE UnreadUpTo(_)
UnreadUpTo(c) ==
    IF c = 0 THEN 0
    ELSE Len(conns[c].fl) + Len(conns[c].inb) + UnreadUpTo(c - 1)

Unread == UnreadUpTo(MaxConns)

\* A remote endpoint connects: the connection waits on the listener for an accept.
Arrive ==
    /\ pc # "done"
    /\ \E c \in ConnIds :
         /\ conns[c].remote = "unused"
         /\ \A d \in ConnIds : d < c => conns[d].remote # "unused"
         /\ conns' = [conns EXCEPT ![c].remote = "open", ![c].srv = "queued",
                                   ![c].occ = (taken = Some(TRUE))]
         /\ backlog' = Append(backlog, c)
    /\ last' = NoReport
    /\ pushed' = <<>>
    /\ UNCHANGED <<fixed, loop_msg, taken, peer, pc, elapsed>>

\* The remote endpoint of c, once accepted, sends msg as one frame (it runs
\* send_message too);
\* the first k bytes of the frame reach the local socket at once, the rest
\* travels behind.
RemoteSend(c, msg, k) ==
    /\ conns[c].remote = "open"
    /\ conns[c].srv = "held"
    /\ conns[c].fl = <<>>
    /\ k <= msg_size
    /\ Unread + msg_size <= MaxInbFrames * msg_size
    /\ LET buff == EncodeFrame(msg, msg_size)
       IN  conns' = [conns EXCEPT ![c].inb = @ \o SubSeq(buff, 1, k),
                                  ![c].fl = SubSeq(buff, k + 1, msg_size)]
    /\ last' = NoReport
    /\ pushed' = <<>>
    /\ UNCHANGED <<fixed, loop_msg, taken, peer, backlog, pc, elapsed>>

\* The bytes in flight on c reach the local socket.
Deliver(c) ==
    /\ conns[c].fl # <<>>
    /\ conns' = [conns EXCEPT ![c].inb = @ \o conns[c].fl, ![c].fl = <<>>]
    /\ last' = NoReport
    /\ pushed' = <<>>
    /\ UNCHANGED <<fixed, loop_msg, taken, peer, backlog, pc, elapsed>>

\* The remote endpoint of c reads what was written to it.
RemoteRead(c) ==
    /\ conns[c].remote = "open"
    /\ conns[c].out > 0
    /\ conns' = [conns EXCEPT ![c].out = 0]
    /\ last' = NoReport
    /\ pushed' = <<>>
    /\ UNCHANGED <<fixed, loop_msg, taken, peer, backlog, pc, elapsed>>

\* The remote endpoint of c closes its connection.
RemoteClose(c) ==
    /\ conns[c].remote = "open"
    /\ conns' = [conns EXCEPT ![c].remote = "closed"]
    /\ last' = NoReport
    /\ pushed' = <<>>
    /\ UNCHANGED <<fixed, loop_msg, taken, peer, backlog, pc, elapsed>>

\* Time passes while await_client_timeout spins.
Tick ==
    /\ pc = "await_client_timeout"
    /\ elapsed < TimeoutMs
    /\ elapsed' = elapsed + TickMs
    /\ last' = NoReport
    /\ pushed' = <<>>
    /\ UNCHANGED <<fixed, loop_msg, taken, peer, backlog, conns, pc>>

Environment ==
    \/ Arrive
    \/ \E c \in ConnIds, msg \in RemoteMsgs, k \in 1..MaxFrame : RemoteSend(c, msg, k)
    \/ \E c \in ConnIds : Deliver(c)
    \/ \E c \in ConnIds : RemoteRead(c)
    \/ \E c \in ConnIds : RemoteClose(c)
    \/ Tick

(***************************************************************************)
(* Spec: a Connection from any constructor, driven by any sequence of its  *)
(* operations from one control flow.                                       *)
(***************************************************************************)
NoCodec == cmsg = <<>> /\ cframe = None /\ cout = None

\* new_connection(msg_size, taken), new_server_connection(msg_size) and
\* new_client_connection(msg_size), whose Peer holds connection 1.
Init ==
    /\ msg_size \in 1..MaxFrame
    /\ \/ /\ taken \in {None, Some(FALSE), Some(TRUE)}
          /\ peer = None
          /\ conns = [c \in ConnIds |-> FreshConn]
       \/ /\ taken = None
          /\ peer = Some(Peer(1, "Server"))
          /\ conns = [c \in ConnIds |->
                        IF c = 1 THEN [FreshConn EXCEPT !.remote = "open", !.srv = "held"]
                        ELSE FreshConn]
    /\ backlog = <<>>
    /\ pc = "idle"
    /\ elapsed = 0
    /\ last = NoReport
    /\ loop_msg = <<>>
    /\ NoCodec
    /\ dups = <<>>
    /\ pushed = <<>>

\* Where the caller is after an operation that may panic.
AfterCall(next) == IF last'.arm = "panic" THEN "crashed" ELSE next

ApiAwaitClient ==
    /\ pc \in {"idle", "await_client"}
    /\ await_client
    /\ pc' = IF last'.arm = "some" THEN "idle" ELSE "await_client"
    /\ pushed' = <<>>
    /\ UNCHANGED loop_msg

ApiAwaitClientTimeoutStart ==
    /\ pc = "idle"
    /\ await_client_timeout_start
    /\ pc' = "await_client_timeout"
    /\ pushed' = <<>>
    /\ UNCHANGED loop_msg

ApiAwaitClientTimeout ==
    /\ pc = "await_client_timeout"
    /\ await_client_timeout
    /\ pc' = IF last'.arm = "none" THEN "await_client_timeout" ELSE "idle"
    /\ pushed' = <<>>
    /\ UNCHANGED loop_msg

ApiRejectOtherClients ==
    /\ pc = "idle"
    /\ reject_other_clients
    /\ pc' = "idle"
    /\ pushed' = <<>>
    /\ UNCHANGED loop_msg

ApiSendMessage ==
    /\ pc = "idle"
    /\ \E msg \in SendMsgs : send_message(msg)
    /\ pc' = AfterCall("idle")
    /\ pushed' = <<>>
    /\ UNCHANGED loop_msg

ApiNotifyMessageReceived ==
    /\ pc = "idle"
    /\ notify_message_received
    /\ pc' = AfterCall("idle")
    /\ pushed' = <<>>
    /\ UNCHANGED loop_msg

ApiReceiveMessage ==
    /\ pc = "idle"
    /\ receive_message
    /\ pc' = AfterCall("idle")
    /\ pushed' = <<>>
    /\ UNCHANGED loop_msg

Next ==
    \/ Environment
    \/ ApiAwaitClient
    \/ ApiAwaitClientTimeoutStart
    \/ ApiAwaitClientTimeout
    \/ ApiRejectOtherClients
    \/ ApiSendMessage
    \/ ApiNotifyMessageReceived
    \/ ApiReceiveMessage

Spec == Init /\ [][Next]_vars

(***************************************************************************)
(* SpecServer: the Connection of server.rs, driven by main's poll loop.    *)
(* msg_size stands for the 255 of server.rs:215.                           *)
(***************************************************************************)
InitServer ==
    /\ msg_size \in 1..MaxFrame
    /\ taken = Some(FALSE)
    /\ peer = None
    /\ conns = [c \in ConnIds |-> FreshConn]
    /\ backlog = <<>>
    /\ pc = "reject"
    /\ elapsed = 0
    /\ last = NoReport
    /\ loop_msg = <<>>
    /\ NoCodec
    /\ dups = <<>>
    /\ pushed = <<>>

\* An entry of chat: what it reports, of whom, and the text in it.
ChatEntry(kind, who, text) == [kind |-> kind, who |-> who, text |-> text]

\* con.reject_other_clients(&server);
LoopReject ==
    /\ pc = "reject"
    /\ reject_other_clients
    /\ pc' = "receive"
    /\ pushed' = <<>>
    /\ UNCHANGED loop_msg

\* let msg = con.receive_message();
LoopReceive ==
    /\ pc = "receive"
    /\ receive_message
    /\ pc' = AfterCall("handle")
    /\ loop_msg' = last'.ret
    /\ pushed' = <<>>

\* handle_client_message's third branch: a message that is none of the four
\* texts is acknowledged.
IsPeerMessage(text) ==
    /\ text # MessageReceivedStr
    /\ text # DisconnectedStr
    /\ text # EmptyStr
    /\ text # BlockedStr

\* The entries handle_client_message pushes on chat for msg.
HandlePushes(msg) ==
    IF msg = MessageReceivedStr THEN <<ChatEntry("acknowledged", "Client", msg)>>
    ELSE IF msg = DisconnectedStr
        THEN <<ChatEntry("disconnected", "Client", <<>>), ChatEntry("waiting", "", <<>>)>>
    ELSE IF msg # EmptyStr /\ msg # BlockedStr THEN <<ChatEntry("message", "Client", msg)>>
    ELSE <<>>

\* handle_client_message(&con, &mut chat, msg, sent_time);
LoopHandle ==
    /\ pc = "handle"
    /\ IF IsPeerMessage(loop_msg)
          THEN notify_message_received
          ELSE /\ last' = NoReport
               /\ UNCHANGED <<fixed, elapsed, taken, peer, backlog, conns>>
    /\ pushed' = HandlePushes(loop_msg)
    /\ pc' = AfterCall("check")
    /\ loop_msg' = <<>>

\* LoopCheck without the test of con.taken.
LoopCheck_Always ==
    /\ pc = "check"
    /\ await_client_timeout_start
    /\ pc' = "await_client_timeout"
    /\ pushed' = <<>>
    /\ UNCHANGED loop_msg

\* client_check_handler, up to its call of await_client_timeout.
LoopCheck ==
    /\ pc = "check"
    /\ IF taken = Some(FALSE)
          THEN /\ await_client_timeout_start
               /\ pc' = "await_client_timeout"
          ELSE /\ last' = NoReport
               /\ pc' = "input"
               /\ UNCHANGED <<fixed, elapsed, taken, peer, backlog, conns>>
    /\ pushed' = <<>>
    /\ UNCHANGED loop_msg

\* client_check_handler's con.await_client_timeout(&server) and, once that has
\* returned, the entry for the Peer that get_peer hands out, if any.
LoopAwaitClientTimeout ==
    /\ pc = "await_client_timeout"
    /\ await_client_timeout
    /\ pc' = IF last'.arm = "none" THEN "await_client_timeout" ELSE "input"
    /\ pushed' = IF last'.arm = "none" \/ peer' = None THEN <<>>
                 ELSE <<ChatEntry("connected", ClonePeer(peer'[1]).who, <<>>)>>
    /\ UNCHANGED loop_msg

\* handle_input: Enter on a line that is not ":quit" sends the line.
LoopInputSend ==
    /\ pc = "input"
    /\ \E line \in SendMsgs :
          /\ send_message(line)
          /\ pushed' = <<ChatEntry("sent", "You", line)>>
    /\ pc' = AfterCall("reject")
    /\ UNCHANGED loop_msg

\* handle_input: no key within 100 ms, or a key that sends nothing.
LoopInputOther ==
    /\ pc = "input"
    /\ last' = NoReport
    /\ pc' = "reject"
    /\ pushed' = <<>>
    /\ UNCHANGED <<fixed, elapsed, taken, peer, backlog, conns, loop_msg>>

\* handle_input returns true (":quit" or ^L): break; drop(server) closes the
\* listener and the connections waiting on it.
LoopQuit ==
    /\ pc = "input"
    /\ pc' = "done"
    /\ backlog' = <<>>
    /\ conns' = [c \in ConnIds |->
                   IF conns[c].srv = "queued" THEN ReleasedConn ELSE conns[c]]
    /\ last' = NoReport
    /\ pushed' = <<>>
    /\ UNCHANGED <<fixed, elapsed, taken, peer, loop_msg>>

NextServer ==
    \/ Environment
    \/ LoopReject
    \/ LoopReceive
    \/ LoopHandle
    \/ LoopCheck
    \/ LoopAwaitClientTimeout
    \/ LoopInputSend
    \/ LoopInputOther
    \/ LoopQuit

SpecServer == InitServer /\ [][NextServer]_vars

\* A step of main's loop.
LoopStep ==
    \/ LoopReject
    \/ LoopReceive
    \/ LoopHandle
    \/ LoopCheck
    \/ LoopAwaitClientTimeout
    \/ LoopInputSend
    \/ LoopInputOther
    \/ LoopQuit

\* A turn of await_client_timeout's loop whose accept gets a connection.
AcceptTurn == LoopAwaitClientTimeout /\ last'.arm = "some"

\* The loop as it runs: it goes on for as long as it has not ended (recv_timeout
\* returns after 100 ms at the latest), and a connection that waits on the
\* listener whenever await_client_timeout is called is not missed by every one
\* of the calls.
SpecServerLive ==
    /\ InitServer
    /\ [][NextServer]_vars
    /\ WF_vars(LoopStep)
    /\ SF_vars(AcceptTurn)

(***************************************************************************)
(* SpecAck: main's poll loop with a frame size that holds the text of an   *)
(* acknowledgement, as the 255 of server.rs:215 does, and a peer that      *)
(* sends nothing but acknowledgements: every frame it sends is the one its *)
(* notify_message_received builds.                                         *)
(***************************************************************************)
InitAck ==
    /\ msg_size \in Len(MessageReceivedStr)..(Len(MessageReceivedStr) + MaxPad)
    /\ taken = Some(FALSE)
    /\ peer = None
    /\ conns = [c \in ConnIds |-> FreshConn]
    /\ backlog = <<>>
    /\ pc = "reject"
    /\ elapsed = 0
    /\ last = NoReport
    /\ loop_msg = <<>>
    /\ NoCodec
    /\ dups = <<>>
    /\ pushed = <<>>

\* The peer's notify_message_received: its frame reaches the local socket whole,
\* or the first byte of it ahead of the rest.
RemoteNotify(c) == \E k \in {1, msg_size} : RemoteSend(c, MessageReceivedStr, k)

NextAck ==
    \/ Arrive
    \/ \E c \in ConnIds : RemoteNotify(c)
    \/ \E c \in ConnIds : Deliver(c)
    \/ \E c \in ConnIds : RemoteRead(c)
    \/ \E c \in ConnIds : RemoteClose(c)
    \/ Tick
    \/ LoopStep

SpecAck == InitAck /\ [][NextAck]_vars

(***************************************************************************)
(* SpecSentinel: main's poll loop with a frame size that holds the texts   *)
(* receive_message returns for its own outcomes, as 255 does, and a peer   *)
(* whose messages are those texts.                                         *)
(***************************************************************************)
InitSentinel ==
    /\ msg_size \in Len(DisconnectedStr)..(Len(DisconnectedStr) + MaxPad)
    /\ taken = Some(FALSE)
    /\ peer = None
    /\ conns = [c \in ConnIds |-> FreshConn]
    /\ backlog = <<>>
    /\ pc = "reject"
    /\ elapsed = 0
    /\ last = NoReport
    /\ loop_msg = <<>>
    /\ NoCodec
    /\ dups = <<>>
    /\ pushed = <<>>

\* The peer's send_message of one of the three texts; the frame arrives whole.
RemoteSentinel(c) ==
    \E text \in {EmptyStr, BlockedStr, DisconnectedStr} : RemoteSend(c, text, msg_size)

NextSentinel ==
    \/ Arrive
    \/ \E c \in ConnIds : RemoteSentinel(c)
    \/ \E c \in ConnIds : RemoteRead(c)
    \/ \E c \in ConnIds : RemoteClose(c)
    \/ Tick
    \/ LoopStep

SpecSentinel == InitSentinel /\ [][NextSentinel]_vars

(***************************************************************************)
(* SpecCodec: the framing codec on its own.  send_message's encoding is    *)
(* applied to a message and receive_message's decoding to the frame.       *)
(***************************************************************************)
InitCodec ==
    /\ msg_size \in 1..MaxCodecFrame
    /\ cmsg \in StringsUpTo(MaxChars)
    /\ cframe = None
    /\ cout = None
    /\ dups = <<>>
    /\ pushed = <<>>
    /\ taken = None
    /\ peer = None
    /\ conns = [c \in ConnIds |-> FreshConn]
    /\ backlog = <<>>
    /\ pc = "codec"
    /\ elapsed = 0
    /\ last = NoReport
    /\ loop_msg = <<>>

\* let mut buff = msg.clone().into_bytes(); buff.resize(self.msg_size, 0);
CodecEncode ==
    /\ cframe = None
    /\ cframe' = Some(EncodeFrame(cmsg, msg_size))
    /\ pushed' = <<>>
    /\ UNCHANGED <<msg_size, taken, peer, backlog, conns, pc, elapsed, last, loop_msg,
                   cmsg, cout, dups>>

\* The Ok(_) arm of receive_message on that frame.
CodecDecode ==
    /\ cframe # None
    /\ cout = None
    /\ cout' = Some(DecodeFrame(cframe[1]))
    /\ pushed' = <<>>
    /\ UNCHANGED <<msg_size, taken, peer, backlog, conns, pc, elapsed, last, loop_msg,
                   cmsg, cframe, dups>>

NextCodec == CodecEncode \/ CodecDecode

SpecCodec == InitCodec /\ [][NextCodec]_vars

(***************************************************************************)
(* SpecTimeout: a server-role Connection whose caller polls with           *)
(* await_client_timeout and receive_message.  The loop of                  *)
(* await_client_timeout spins without pause and the clock advances.        *)
(***************************************************************************)
InitTimeout ==
    /\ msg_size \in 1..MaxFrame
    /\ taken = Some(FALSE)
    /\ peer = None
    /\ conns = [c \in ConnIds |-> FreshConn]
    /\ backlog = <<>>
    /\ pc = "idle"
    /\ elapsed = 0
    /\ last = NoReport
    /\ loop_msg = <<>>
    /\ NoCodec
    /\ dups = <<>>
    /\ pushed = <<>>

NextTimeout ==
    \/ Arrive
    \/ \E c \in ConnIds : RemoteClose(c)
    \/ Tick
    \/ ApiAwaitClientTimeoutStart
    \/ ApiAwaitClientTimeout
    \/ ApiRejectOtherClients
    \/ ApiReceiveMessage

SpecTimeout ==
    /\ InitTimeout
    /\ [][NextTimeout]_vars
    /\ WF_vars(Tick)
    /\ WF_vars(ApiAwaitClientTimeout)

(***************************************************************************)
(* SpecAwait: a server-role Connection whose caller admits clients with    *)
(* await_client.  Its loop spins without pause: a turn that accepts        *)
(* nothing is followed by the next.                                        *)
(***************************************************************************)
InitAwait ==
    /\ msg_size \in 1..MaxFrame
    /\ taken = Some(FALSE)
    /\ peer = None
    /\ conns = [c \in ConnIds |-> FreshConn]
    /\ backlog = <<>>
    /\ pc = "idle"
    /\ elapsed = 0
    /\ last = NoReport
    /\ loop_msg = <<>>
    /\ NoCodec
    /\ dups = <<>>
    /\ pushed = <<>>

\* `None => continue`: the turn after one that accepted nothing.
AwaitClientSpin == pc = "await_client" /\ ApiAwaitClient

NextAwait ==
    \/ Arrive
    \/ \E c \in ConnIds, msg \in RemoteMsgs, k \in 1..MaxFrame : RemoteSend(c, msg, k)
    \/ \E c \in ConnIds : Deliver(c)
    \/ \E c \in ConnIds : RemoteClose(c)
    \/ ApiAwaitClient
    \/ ApiRejectOtherClients
    \/ ApiReceiveMessage

SpecAwait ==
    /\ InitAwait
    /\ [][NextAwait]_vars
    /\ WF_vars(AwaitClientSpin)

(***************************************************************************)
(* SpecClient: the Connection of new_client_connection, whose Peer holds   *)
(* connection 1 to the server, driven by any sequence of send_message,     *)
(* receive_message and notify_message_received.                            *)
(***************************************************************************)
InitClient ==
    /\ msg_size \in 1..MaxFrame
    /\ taken = None
    /\ peer = Some(Peer(1, "Server"))
    /\ conns = [c \in ConnIds |->
                  IF c = 1 THEN [FreshConn EXCEPT !.remote = "open", !.srv = "held"]
                  ELSE FreshConn]
    /\ backlog = <<>>
    /\ pc = "idle"
    /\ elapsed = 0
    /\ last = NoReport
    /\ loop_msg = <<>>
    /\ NoCodec
    /\ dups = <<>>
    /\ pushed = <<>>

NextClient ==
    \/ \E c \in ConnIds, msg \in RemoteMsgs, k \in 1..MaxFrame : RemoteSend(c, msg, k)
    \/ \E c \in ConnIds : Deliver(c)
    \/ \E c \in ConnIds : RemoteRead(c)
    \/ \E c \in ConnIds : RemoteClose(c)
    \/ ApiSendMessage
    \/ ApiNotifyMessageReceived
    \/ ApiReceiveMessage

SpecClient == InitClient /\ [][NextClient]_vars

(***************************************************************************)
(* SpecPeer: a Connection of either role whose caller also takes           *)
(* duplicates of the bound Peer with get_peer, keeps them and drops them.  *)
(***************************************************************************)
InitPeer == InitAwait \/ InitClient

ApiGetPeer ==
    /\ pc = "idle"
    /\ Len(dups) < MaxDups
    /\ get_peer
    /\ pc' = "idle"
    /\ pushed' = <<>>
    /\ UNCHANGED loop_msg

\* The caller drops the i-th Peer it holds: its TcpStream is closed, and with it
\* the connection if no other handle of it is left.
DropDup(i) ==
    /\ i \in DOMAIN dups
    /\ LET c == dups[i].stream
           rest == SubSeq(dups, 1, i - 1) \o SubSeq(dups, i + 1, Len(dups))
           others == \/ peer # None /\ peer[1].stream = c
                     \/ \E j \in DOMAIN rest : rest[j].stream = c
       IN  /\ dups' = rest
           /\ conns' = IF others THEN conns ELSE [conns EXCEPT ![c] = ReleasedConn]
    /\ last' = NoReport
    /\ pushed' = <<>>
    /\ UNCHANGED <<msg_size, cmsg, cframe, cout, loop_msg, taken, peer, backlog, pc,
                   elapsed>>

NextPeer ==
    \/ Arrive
    \/ \E c \in ConnIds : RemoteClose(c)
    \/ ApiAwaitClient
    \/ ApiReceiveMessage
    \/ ApiGetPeer
    \/ \E i \in 1..MaxDups : DropDup(i)

SpecPeer == InitPeer /\ [][NextPeer]_vars

(***************************************************************************)
(* The claims.                                                             *)
(***************************************************************************)
\* This step is a step of operation op.
OpStep(op) == last' # last /\ last'.op = op

NoZero(text) == \A i \in 1..Len(text) : text[i] # 0

\* C1: in every reachable state of a server-role Connection (taken is Some),
\* from whichever constructor, taken is Some(true) if and only if a peer is bound.
C1_OccupiedIffPeer ==
    taken # None => ((taken = Some(TRUE)) <=> (peer # None))

\* C2: reject_other_clients on an occupied Connection makes exactly one accept,
\* closes the connection it got, if any, returns (true, that Peer or None) and
\* leaves taken, peer and the bound peer's connection as they were; on any other
\* Connection it makes no accept, returns (false, None) and changes nothing.
C2_RejectOthers ==
    [][OpStep("reject_other_clients") =>
         IF taken = Some(TRUE)
           THEN /\ last'.acc = 1
                /\ last'.rej = <<TRUE, IF backlog = <<>> THEN None
                                       ELSE Some(Peer(Head(backlog), Addr(Head(backlog))))>>
                /\ backlog' = IF backlog = <<>> THEN <<>> ELSE Tail(backlog)
                /\ backlog # <<>> => conns'[Head(backlog)].srv = "closed"
                /\ \A c \in ConnIds : (backlog = <<>> \/ c # Head(backlog)) =>
                                          conns'[c] = conns[c]
                /\ taken' = Some(TRUE)
                /\ peer' = peer
           ELSE /\ last'.acc = 0
                /\ last'.rej = <<FALSE, None>>
                /\ UNCHANGED <<taken, peer, backlog, conns>>]_vars

\* C2's case: an occupied Connection has just rejected a second connection.
C2_Witness ==
    /\ last.op = "reject_other_clients"
    /\ last.rej[1] = TRUE
    /\ last.rej[2] # None
    /\ peer # None
    /\ taken = Some(TRUE)

\* C3: in the server loop a connection that reached the listener while the
\* Connection was occupied is never bound as its peer, and a bound peer is never
\* replaced by another.
C3_AdmissionExclusive ==
    [][/\ (peer' # peer /\ peer' # None) => ~conns[peer'[1].stream].occ
       /\ peer # None => peer' \in {peer, None}]_vars

\* C4 as stated: once the remote end has closed, the very next receive_message
\* returns "Disconnected", clears the peer and sets taken to Some(false).
C4_Original ==
    [][(/\ OpStep("receive_message")
        /\ peer # None
        /\ conns[peer[1].stream].remote = "closed") =>
          /\ last'.ret = DisconnectedStr
          /\ peer' = None
          /\ taken' = Some(FALSE)]_vars

\* C4 as amended: once the remote end's close has reached the local socket with
\* fewer than msg_size unread bytes before it, the very next receive_message
\* returns "Disconnected", clears the peer and sets taken to Some(false); and
\* with no peer bound every receive_message and send_message returns "Empty"
\* and binds none.
C4_Disconnect ==
    [][/\ (/\ OpStep("receive_message")
            /\ peer # None
            /\ AtEof(peer[1].stream)
            /\ Len(conns[peer[1].stream].inb) < msg_size) =>
              /\ last'.ret = DisconnectedStr
              /\ peer' = None
              /\ taken' = Some(FALSE)
       /\ ((OpStep("receive_message") \/ OpStep("send_message")) /\ peer = None) =>
              /\ last'.ret = EmptyStr
              /\ peer' = None]_vars

\* C4's case: receive_message has just found the remote end closed.
C4_Witness ==
    /\ last.op = "receive_message"
    /\ last.arm = "err"
    /\ last.ret = DisconnectedStr
    /\ peer = None
    /\ taken = Some(FALSE)

\* C5: a message shorter than msg_size bytes and without a zero byte comes out
\* of receive_message's decoding of send_message's frame as it went in, and the
\* frame is msg_size bytes long.
C5_RoundTrip ==
    (cout # None /\ Len(cmsg) < msg_size /\ NoZero(cmsg)) =>
        /\ Len(cframe[1]) = msg_size
        /\ cout[1] = [panic |-> FALSE, text |-> cmsg]

\* C5's case: a three-byte message with a two-byte character has made the trip.
C5_Witness ==
    /\ cout # None
    /\ cmsg = <<97, 195, 169>>
    /\ msg_size > 3

\* C6: a message of msg_size bytes or more is framed in exactly msg_size bytes
\* and decoded as its first msg_size bytes.  Stated for the messages without a
\* zero byte, which the framing is documented not to carry.
C6_Truncation ==
    (cout # None /\ Len(cmsg) >= msg_size /\ NoZero(cmsg)) =>
        /\ Len(cframe[1]) = msg_size
        /\ cout[1] = [panic |-> FALSE, text |-> SubSeq(cmsg, 1, msg_size)]

\* C7: every send_message on a Connection with a peer puts exactly msg_size
\* bytes on the peer's stream, whatever the length of the message, and msg_size
\* never changes.
C7_ExactFrame ==
    [][/\ ((OpStep("send_message") \/ OpStep("notify_message_received"))
            /\ peer # None) =>
              /\ Len(last'.frame) = msg_size
              /\ last'.wr = msg_size
       /\ msg_size' = msg_size]_vars

\* C8: with no peer bound, send_message, receive_message and
\* notify_message_received answer "Empty", do no socket I/O and leave taken,
\* peer, the listener and every connection as they were.
C8_EmptyGuard ==
    [][((\/ OpStep("send_message")
         \/ OpStep("receive_message")
         \/ OpStep("notify_message_received")) /\ peer = None) =>
           /\ last'.ret = EmptyStr
           /\ last'.wr = 0 /\ last'.rd = 0 /\ last'.acc = 0
           /\ UNCHANGED <<taken, peer, backlog, conns>>]_vars

\* C8's case: a server-role Connection without a peer has just been asked to
\* receive, for the second time in a row.
C8_Witness ==
    /\ last.op = "receive_message"
    /\ last.ret = EmptyStr
    /\ last.n = 1
    /\ peer = None
    /\ taken = Some(FALSE)

\* C9: while the bound peer's end is open and nothing of it waits unread,
\* receive_message returns "Blocked" and leaves taken, peer, the listener and
\* every connection as they were, however often it is called.
C9_WouldBlock ==
    [][(/\ OpStep("receive_message")
        /\ peer # None
        /\ conns[peer[1].stream].remote = "open"
        /\ conns[peer[1].stream].inb = <<>>) =>
          /\ last'.ret = BlockedStr
          /\ UNCHANGED <<taken, peer, backlog, conns>>]_vars

\* C9's case: receive_message has answered "Blocked" for the second time in a
\* row, with the peer still bound and silent.
C9_Witness ==
    /\ last.op = "receive_message"
    /\ last.arm = "wouldblock"
    /\ last.ret = BlockedStr
    /\ last.n = 1
    /\ peer # None
    /\ conns[peer[1].stream].remote = "open"

\* C10: await_client_timeout always returns; when it returns for the time, the
\* bound was reached and taken, peer, the listener and the connections are as
\* they were; a turn that accepts nothing changes nothing; and a connection
\* accepted before the bound is bound, with taken Some(true), in the step that
\* returns.
C10_Timeout ==
    /\ (pc = "await_client_timeout") ~> (pc = "idle")
    /\ [][OpStep("await_client_timeout") =>
             /\ last'.arm = "timeout" =>
                   /\ elapsed >= TimeoutMs
                   /\ pc' = "idle"
                   /\ UNCHANGED <<taken, peer, backlog, conns>>
             /\ last'.arm = "none" =>
                   /\ backlog = <<>>
                   /\ UNCHANGED <<taken, peer, backlog, conns>>
             /\ last'.arm = "some" =>
                   /\ elapsed < TimeoutMs
                   /\ backlog # <<>>
                   /\ peer' = Some(Peer(Head(backlog), Addr(Head(backlog))))
                   /\ taken' = Some(TRUE)
                   /\ pc' = "idle"]_vars

\* C10's case: await_client_timeout has returned for the time, no peer bound.
C10_Witness ==
    /\ last.op = "await_client_timeout"
    /\ last.arm = "timeout"
    /\ pc = "idle"
    /\ peer = None
    /\ taken = Some(FALSE)

\* C11: await_client returns only from a turn whose accept got a connection,
\* and then that connection is the peer and taken is Some(true); a turn whose
\* accept got nothing changes nothing and is followed by another turn; and once
\* a connection waits on the listener, a spinning await_client returns.
C11_AwaitClient ==
    /\ (pc = "await_client" /\ backlog # <<>>) ~> (pc = "idle" /\ taken = Some(TRUE))
    /\ [][OpStep("await_client") =>
             /\ pc' = "idle" <=> backlog # <<>>
             /\ pc' # "idle" => pc' = "await_client"
             /\ backlog = <<>> => UNCHANGED <<taken, peer, backlog, conns>>
             /\ backlog # <<>> =>
                   /\ peer' = Some(Peer(Head(backlog), Addr(Head(backlog))))
                   /\ taken' = Some(TRUE)
                   /\ backlog' = Tail(backlog)
                   /\ conns'[Head(backlog)].srv = "held"]_vars

\* C11's case: await_client, called on an empty server-role Connection, has
\* accepted the first connection and returned.
C11_Witness ==
    /\ last.op = "await_client"
    /\ last.arm = "some"
    /\ pc = "idle"
    /\ taken = Some(TRUE)
    /\ peer = Some(Peer(1, Addr(1)))

\* C12: a Connection built by new_client_connection has taken = None and a
\* peer bound in every state that send_message, receive_message and
\* notify_message_received lead it to.
C12_ClientBound == taken = None /\ peer # None

\* C13: a send_message (or notify_message_received) on a Connection with a peer
\* either gets the whole frame onto the socket and returns "Message sent ...",
\* or panics; it returns no other text, and taken and peer are as they were.
C13_SendOutcome ==
    [][((OpStep("send_message") \/ OpStep("notify_message_received")) /\ peer # None) =>
          /\ \/ /\ last'.arm = "some"
                /\ last'.wr = msg_size
                /\ last'.ret = MessageSentPrefix \o DebugVec(last'.frame)
                /\ pc' # "crashed"
             \/ /\ last'.arm = "panic"
                /\ pc' = "crashed"
          /\ UNCHANGED <<taken, peer>>]_vars

\* C14: the Peer that get_peer hands out has the who and the connection of the
\* bound Peer; a connection stays open for as long as the Connection's Peer or
\* a duplicate is a handle of it, whichever of them are dropped; and it is
\* closed only by a step after which no handle of it is left.
C14_PeerClone ==
    /\ [](\A c \in ConnIds :
            ((peer # None /\ peer[1].stream = c) \/ HasDup(c)) => conns[c].srv = "held")
    /\ [][/\ (OpStep("get_peer") /\ peer # None) =>
                 /\ Len(dups') = Len(dups) + 1
                 /\ dups'[Len(dups')].who = peer[1].who
                 /\ dups'[Len(dups')].stream = peer[1].stream
                 /\ UNCHANGED <<taken, peer, conns>>
          /\ \A c \in ConnIds :
                 (conns[c].srv = "held" /\ conns'[c].srv # "held") =>
                     /\ ~(peer' # None /\ peer'[1].stream = c)
                     /\ \A i \in DOMAIN dups' : dups'[i].stream # c]_vars

\* C14's case: the Connection has dropped its Peer on a disconnect while the
\* caller holds a duplicate, and the connection is still open.
C14_Witness ==
    /\ last.op = "receive_message"
    /\ last.arm = "err"
    /\ peer = None
    /\ Len(dups) = 1
    /\ dups[1].who = Addr(1)
    /\ conns[dups[1].stream].srv = "held"

\* C15: a receive_message that returns a decoded message takes exactly msg_size
\* bytes, the first frame, off the peer's unread bytes and leaves every byte
\* behind it to the next calls.
C15_OneFramePerCall ==
    [][(OpStep("receive_message") /\ last'.arm = "ok") =>
          /\ last'.rd = msg_size
          /\ conns'[peer[1].stream].inb =
                SubSeq(conns[peer[1].stream].inb, msg_size + 1,
                       Len(conns[peer[1].stream].inb))]_vars

\* C16: a receive_message that returns "Blocked" leaves taken, peer, the
\* listener and every connection, the peer's unread bytes included, as they
\* were, also when part of a frame had arrived.
C16_BlockedKeepsBytes ==
    [][(OpStep("receive_message") /\ last'.arm = "wouldblock") =>
          /\ last'.ret = BlockedStr
          /\ last'.rd = 0
          /\ UNCHANGED <<taken, peer, backlog, conns>>]_vars

C18_AckProtocol ==
    [][/\ (pc = "handle" /\ pc' # "handle") =>
              (OpStep("notify_message_received") <=> IsPeerMessage(loop_msg))
       /\ ~OpStep("notify_message_received")]_vars

\* C19: receive_message returns "Disconnected" only from a call that clears
\* the bound peer, "Blocked" only from a call that decoded no frame and "Empty"
\* only when no peer is bound, whatever the peer sends; and the loop pushes a
\* "Disconnected" entry only in handling a call that dropped the peer.
C19_Sentinels ==
    [][/\ OpStep("receive_message") =>
             /\ last'.ret = DisconnectedStr =>
                   (peer # None /\ peer' = None /\ taken' = Some(FALSE))
             /\ last'.ret = BlockedStr =>
                   (peer # None /\ last'.arm = "wouldblock" /\ UNCHANGED <<taken, peer>>)
             /\ last'.ret = EmptyStr => (peer = None /\ UNCHANGED <<taken, peer>>)
       /\ (\E i \in DOMAIN pushed' : pushed'[i].kind = "disconnected") =>
             (peer = None /\ taken = Some(FALSE))]_vars

====
